---- MODULE Spec2Model ----
(***************************************************************************)
(* Model of the service-order form (ServiceOrderForm) of fb-os: the        *)
(* quotation kept in the component's state (selected material lines, the   *)
(* form's service lines, the discount), its totals, and the submission to  *)
(* the external store.                                                     *)
(*                                                                         *)
(* Amounts.  The code computes with IEEE doubles; the model computes with  *)
(* exact decimals, an amount being an integer number of thousandths        *)
(* ("mills": 50.005 is 50005).  The two differ only when a sum or product  *)
(* is a half-cent in decimals and lies just below it as a double, which    *)
(* then rounds down (1.005 * 3 gives 3.01).  The prices, quantities and    *)
(* texts of this model are chosen so that no such value arises with up to  *)
(* three material lines and three service lines: on them the decimal       *)
(* results are the results of the doubles.  No property confirmed below    *)
(* depends on the direction in which a half-cent is rounded.  The one      *)
(* amount the code does not round, the total it writes to the order        *)
(* header, is computed as a double, bit for bit.                           *)
(*                                                                         *)
(* Text.  A text input is a sequence of one-character strings, so that     *)
(* parsing can be modelled character by character.                         *)
(*                                                                         *)
(* The second part models the price table of the administration page       *)
(* (MaterialsManagement): the table kept in the component's state, the     *)
(* service_prices table of the store, and the requests in flight between   *)
(* the two.  A request is answered by the store in one step and its        *)
(* answer reaches the component in a later step, in any order.  The third  *)
(* part models the material list of the same page and the adding,          *)
(* updating and deletion of a material, a handler being a sequence of      *)
(* steps separated by its awaits.                                          *)
(***************************************************************************)
EXTENDS Integers, Sequences, FiniteSets, TLC

\* ------------------------------------------------------------------ bounds

\* Most selected material lines / form service lines the model explores.
MaxLines == 2
MaxServices == 2

\* Most price-table edits of one session the model explores.
MaxEdits == 2

\* Most material handler calls suspended at a time, and most materials
\* added, that the model explores.
MaxCalls == 2
MaxAdds == 1

\* ------------------------------------------------------------------ text

Digits == {"0", "1", "2", "3", "4", "5", "6", "7", "8", "9"}

DigitVal(c) ==
  CASE c = "0" -> 0 [] c = "1" -> 1 [] c = "2" -> 2 [] c = "3" -> 3
    [] c = "4" -> 4 [] c = "5" -> 5 [] c = "6" -> 6 [] c = "7" -> 7
    [] c = "8" -> 8 [] c = "9" -> 9

\* Number of consecutive digits of s from position i on.
RECURSIVE DigitRun(_, _)
DigitRun(s, i) ==
  IF i <= Len(s) /\ s[i] \in Digits THEN 1 + DigitRun(s, i + 1) ELSE 0

\* Value of the n digits of s that start at position i.
RECURSIVE DigitsValue(_, _, _)
DigitsValue(s, i, n) ==
  IF n = 0 THEN 0 ELSE DigitsValue(s, i, n - 1) * 10 + DigitVal(s[i + n - 1])

\* 10^n
RECURSIVE Pow10(_)
Pow10(n) == IF n = 0 THEN 1 ELSE 10 * Pow10(n - 1)

\* String.prototype.replace(',', '.'): a string pattern replaces the FIRST
\* occurrence only.
RECURSIVE replaceComma(_)
replaceComma(s) ==
  IF s = <<>> THEN <<>>
  ELSE IF Head(s) = "," THEN <<".">> \o Tail(s)
  ELSE <<Head(s)>> \o replaceComma(Tail(s))

\* A JavaScript number as the model sees it: NaN, or an amount in mills.
NaN == [nan |-> TRUE, val |-> 0]
Num(v) == [nan |-> FALSE, val |-> v]

\* parseFloat: the longest prefix [sign] digits [. digits]; NaN when that
\* prefix holds no digit.  Fraction digits after the third are below the
\* model's resolution (no text of the model has more than three); white
\* space, exponents and "Infinity" are not in the model's alphabet.
parseFloat(s) ==
  LET signed == Len(s) >= 1 /\ s[1] \in {"-", "+"}
      start  == IF signed THEN 2 ELSE 1
      ni     == DigitRun(s, start)
      hasDot == start + ni <= Len(s) /\ s[start + ni] = "."
      nf     == IF hasDot THEN DigitRun(s, start + ni + 1) ELSE 0
      kf     == IF nf > 3 THEN 3 ELSE nf
      mag    == DigitsValue(s, start, ni) * 1000
                  + DigitsValue(s, start + ni + 1, kf) * Pow10(3 - kf)
  IN  IF ni = 0 /\ nf = 0 THEN NaN
      ELSE Num(IF signed /\ s[1] = "-" THEN 0 - mag ELSE mag)

\* ------------------------------------------------------------------ data

\* Texts typed into the custom-value field of a service line.
TxtEmpty   == <<>>
TxtLetters == <<"a", "b", "c">>
TxtComma   == <<"1", ",", "5">>
TxtPoint   == <<"2", ".", "5">>
TxtNegHalf == <<"-", "0", ".", "0", "0", "5">>
TxtPrefix  == <<"3", "a">>

\* Texts typed into the discount field.
TxtTen      == <<"1", "0">>
TxtNegComma == <<"-", "2", ",", "5">>
DiscountTexts == {TxtTen, TxtNegComma, TxtLetters, TxtEmpty}

\* The rows of the store's materials table, ordered by name.  Prices are in
\* mills: 50.005 and 1.25.
Catalog ==
  << [id |-> "m1", default_price |-> 50005],
     [id |-> "m2", default_price |-> 1250] >>

CatalogSet == {Catalog[i] : i \in 1..Len(Catalog)}

\* Quantities passed to updateMaterialQuantity.
QuantityInputs == {0 - 1, 0, 1, 2}

\* The blank service line of the form's default values.
BlankService ==
  [service_type |-> "", equipment_type |-> "", equipment_power |-> "",
   description |-> "", custom_service_value |-> TxtEmpty]

Service(type, equipment, value) ==
  [service_type |-> type, equipment_type |-> equipment,
   equipment_power |-> "", description |-> "",
   custom_service_value |-> value]

\* Service lines the totals are computed over.
CalcServiceLines ==
  { BlankService,
    Service("maintenance", "", TxtComma),
    Service("cleaning", "split", TxtPoint),
    Service("other", "", TxtLetters),
    Service("gas_recharge", "", TxtNegHalf),
    Service("installation", "split", TxtPrefix) }

\* Service lines the form is edited with.
EditServiceLines ==
  { BlankService,
    Service("maintenance", "", TxtComma),
    Service("cleaning", "", TxtEmpty) }

\* All sequences over S of length lo..hi.
SeqsOf(S, lo, hi) == UNION {[1..n -> S] : n \in lo..hi}

\* ------------------------------------------------------------------ state

VARIABLES
  materials,          \* the materials loaded from the store
  selectedMaterials,  \* the selected material lines: material, quantity
  services,           \* the form's 'services' field array
  customer,           \* the form's 'customer' field: id, name
  discount,           \* the discount, in mills
  loading,            \* TRUE while the mount effect's loadMaterials runs
  lastOp,             \* the latest handler call: its name and arguments
  pdfTotals,          \* the totals that call printed (generatePDF)
  inserted,           \* the rows that call inserted into the store's tables
  toast,              \* the toast that call showed, "" for none
  servicePrices,      \* the administration page's price table: id and cells
  priceStore,         \* the rows of the store's service_prices table
  priceCalls,         \* the store requests of the price table in flight
  clock,              \* the number of price-table edits made: the time
  history,            \* what the session has issued and persisted so far
  adminMaterials,     \* the administration page's material list (materials)
  materialStore,      \* the rows of the store's materials table
  materialCalls,      \* the material handlers suspended at a store call
  newMaterial         \* the fields of the material to add (newMaterial)

\* The state of the service-order form.
formVars == << materials, selectedMaterials, services, customer, discount,
               loading, pdfTotals, inserted >>

\* The state of the administration page and of its store tables: the price
\* table, the material list.
priceVars == << servicePrices, priceStore, priceCalls, clock, history >>
materialVars == << adminMaterials, materialStore, materialCalls, newMaterial >>
adminVars == << priceVars, materialVars >>

vars == << materials, selectedMaterials, services, customer, discount,
           loading, lastOp, pdfTotals, inserted, toast,
           servicePrices, priceStore, priceCalls, clock, history,
           adminMaterials, materialStore, materialCalls, newMaterial >>

\* ------------------------------------------------------------------ totals

\* Math.round((num + Number.EPSILON) * 100) / 100.  Math.round rounds a
\* half towards plus infinity: floor(x + 1/2).  The epsilon is below the
\* model's resolution.
roundToTwo(num) == ((num + 5) \div 10) * 10

\* selectedMaterials.reduce((total, {material, quantity}) =>
\*   total + material.default_price * quantity, 0), rounded once.
RECURSIVE reduceMaterials(_, _)
reduceMaterials(lines, total) ==
  IF lines = <<>> THEN total
  ELSE reduceMaterials(Tail(lines),
         total + Head(lines).material.default_price * Head(lines).quantity)

\* Mutant of calculateMaterialsTotal: every line rounded before it is added.
RECURSIVE reduceMaterialsRounded(_, _)
reduceMaterialsRounded(lines, total) ==
  IF lines = <<>> THEN total
  ELSE reduceMaterialsRounded(Tail(lines),
         total + roundToTwo(Head(lines).material.default_price
                              * Head(lines).quantity))

calculateMaterialsTotalPerLine ==
  roundToTwo(reduceMaterialsRounded(selectedMaterials, 0))

calculateMaterialsTotal == roundToTwo(reduceMaterials(selectedMaterials, 0))

\* Mutant of serviceValue: the decimal comma is not normalized.
serviceValueNoComma(service) ==
  IF service.custom_service_value # <<>>
  THEN parseFloat(service.custom_service_value)
  ELSE Num(0)

\* service.custom_service_value ? parseFloat(v.replace(',', '.')) : 0
serviceValue(service) ==
  IF service.custom_service_value # <<>>
  THEN parseFloat(replaceComma(service.custom_service_value))
  ELSE Num(0)

RECURSIVE reduceServices(_, _)
reduceServices(lines, total) ==
  IF lines = <<>> THEN total
  ELSE LET value == serviceValue(Head(lines))
       IN  reduceServices(Tail(lines),
             total + (IF value.nan THEN 0 ELSE value.val))

calculateServicesTotal == roundToTwo(reduceServices(services, 0))

calculateTotal ==
  LET materialsTotal == roundToTwo(calculateMaterialsTotal)
      servicesTotal  == roundToTwo(calculateServicesTotal)
      subtotal       == roundToTwo(materialsTotal + servicesTotal)
  IN  roundToTwo(subtotal - discount)

\* setDiscount(isNaN(numValue) ? 0 : roundToTwo(numValue))
discountOf(text) ==
  LET numValue == parseFloat(replaceComma(text))
  IN  IF numValue.nan THEN 0 ELSE roundToTwo(numValue.val)

\* ------------------------------------------------------------------ doubles

\* The sums onSubmit computes are not rounded, so their values are in
\* general not amounts in mills: they are kept as the doubles they are.  A
\* double is a sign, a mantissa of 53 bits and an exponent:
\* mantissa * 2^exp.  Zero has no mantissa.  The amounts of this model are
\* far from the subnormal numbers and from overflow, which are left out.
\* A mantissa, as every natural number here, is a sequence of limbs of 15
\* bits, least significant first, the last one not zero.

Base == 2^15

\* A natural number below 2^31 in limbs.
RECURSIVE LimbsOf(_)
LimbsOf(n) == IF n = 0 THEN <<>> ELSE << n % Base >> \o LimbsOf(n \div Base)

ZeroLimbs(k) == [i \in 1..k |-> 0]

\* Limbs without their most significant zeros.
RECURSIVE Normal(_)
Normal(a) ==
  IF a = <<>> THEN a
  ELSE IF a[Len(a)] # 0 THEN a
  ELSE Normal(SubSeq(a, 1, Len(a) - 1))

Limb(a, i) == IF i <= Len(a) THEN a[i] ELSE 0

\* a + b from limb i on, with the carry of the limbs below.
RECURSIVE LimbsAddFrom(_, _, _, _)
LimbsAddFrom(a, b, i, carry) ==
  IF i > Len(a) /\ i > Len(b)
  THEN (IF carry = 0 THEN <<>> ELSE << carry >>)
  ELSE LET sum == Limb(a, i) + Limb(b, i) + carry
       IN  << sum % Base >> \o LimbsAddFrom(a, b, i + 1, sum \div Base)

LimbsAdd(a, b) == LimbsAddFrom(a, b, 1, 0)

\* a - b from limb i on, for a >= b, with the borrow of the limbs below.
RECURSIVE LimbsSubFrom(_, _, _, _)
LimbsSubFrom(a, b, i, borrow) ==
  IF i > Len(a) THEN <<>>
  ELSE LET diff == Limb(a, i) - Limb(b, i) - borrow
       IN  << diff % Base >>
             \o LimbsSubFrom(a, b, i + 1, IF diff < 0 THEN 1 ELSE 0)

LimbsSub(a, b) == Normal(LimbsSubFrom(a, b, 1, 0))

\* a < b, for limbs without most significant zeros.
RECURSIVE LimbsLessFrom(_, _, _)
LimbsLessFrom(a, b, i) ==
  IF i = 0 THEN FALSE
  ELSE IF a[i] # b[i] THEN a[i] < b[i]
  ELSE LimbsLessFrom(a, b, i - 1)

LimbsLess(a, b) ==
  IF Len(a) # Len(b) THEN Len(a) < Len(b) ELSE LimbsLessFrom(a, b, Len(a))

\* a * m from limb i on, for m up to Base, with the carry of the limbs
\* below.
RECURSIVE LimbsTimesFrom(_, _, _, _)
LimbsTimesFrom(a, m, i, carry) ==
  IF i > Len(a) THEN (IF carry = 0 THEN <<>> ELSE << carry >>)
  ELSE LET product == a[i] * m + carry
       IN  << product % Base >>
             \o LimbsTimesFrom(a, m, i + 1, product \div Base)

\* Quotient and remainder of the limbs i and above of a by d, for d up to
\* Base, rem being the remainder of the limbs above i.
RECURSIVE LimbsDivFrom(_, _, _, _)
LimbsDivFrom(a, d, i, rem) ==
  IF i = 0 THEN [q |-> <<>>, r |-> rem]
  ELSE LET cur  == rem * Base + a[i]
           rest == LimbsDivFrom(a, d, i - 1, cur % d)
       IN  [q |-> Append(rest.q, cur \div d), r |-> rest.r]

\* a * 2^k
ShiftLeft(a, k) ==
  ZeroLimbs(k \div 15) \o LimbsTimesFrom(a, 2^(k % 15), 1, 0)

\* a \div 2^k, and whether a bit was shifted out.
ShiftRight(a, k) ==
  LET whole == IF k \div 15 < Len(a) THEN k \div 15 ELSE Len(a)
      rest  == SubSeq(a, whole + 1, Len(a))
      d     == LimbsDivFrom(rest, 2^(k % 15), Len(rest), 0)
  IN  [q |-> Normal(d.q),
       out |-> d.r # 0 \/ \E i \in 1..whole : a[i] # 0]

\* The number of bits of a, for limbs without most significant zeros.
BitLength(a) ==
  IF a = <<>> THEN 0
  ELSE 15 * (Len(a) - 1)
         + (CHOOSE n \in 1..15 : 2^(n - 1) <= a[Len(a)] /\ a[Len(a)] < 2^n)

DoubleZero == [neg |-> FALSE, mant |-> <<>>, exp |-> 0]

\* The double nearest to a * 2^exp, a tie going to the even mantissa (the
\* rounding of every operation on doubles).
Rounded(neg, a, exp) ==
  LET b == Normal(a)
      L == BitLength(b)
      d == L - 53
      low   == ShiftRight(b, d - 1)
      guard == low.q[1] % 2 = 1
      kept  == ShiftRight(low.q, 1).q
      up    == guard /\ (low.out \/ kept[1] % 2 = 1)
      m     == IF up THEN LimbsAdd(kept, << 1 >>) ELSE kept
  IN  IF L = 0 THEN DoubleZero
      ELSE IF L <= 53
        THEN [neg |-> neg, mant |-> ShiftLeft(b, 53 - L), exp |-> exp - (53 - L)]
      ELSE IF BitLength(m) = 54
        THEN [neg |-> neg, mant |-> ShiftRight(m, 1).q, exp |-> exp + d + 1]
      ELSE [neg |-> neg, mant |-> m, exp |-> exp + d]

\* The double an amount in mills stands for: the one nearest to
\* mills / 1000, which is what Math.round(...) / 100 and the reading of a
\* decimal literal give.  The quotient is computed to 2^-64 and a remainder
\* is kept as one more bit below it.
toDouble(mills) ==
  LET magnitude == IF mills < 0 THEN 0 - mills ELSE mills
      scaled == ShiftLeft(LimbsOf(magnitude), 64)
      d == LimbsDivFrom(scaled, 1000, Len(scaled), 0)
  IN  Rounded(mills < 0,
              LimbsAdd(ShiftLeft(d.q, 1), IF d.r = 0 THEN <<>> ELSE << 1 >>),
              0 - 65)

\* x + y
doubleAdd(x, y) ==
  LET e == IF x.exp < y.exp THEN x.exp ELSE y.exp
      a == Normal(ShiftLeft(x.mant, x.exp - e))
      b == Normal(ShiftLeft(y.mant, y.exp - e))
  IN  IF x.mant = <<>> THEN y
      ELSE IF y.mant = <<>> THEN x
      ELSE IF x.neg = y.neg THEN Rounded(x.neg, LimbsAdd(a, b), e)
      ELSE IF LimbsLess(a, b) THEN Rounded(y.neg, LimbsSub(b, a), e)
      ELSE Rounded(x.neg, LimbsSub(a, b), e)

\* x - y
doubleSub(x, y) ==
  doubleAdd(x, IF y.mant = <<>> THEN y ELSE [y EXCEPT !.neg = ~y.neg])

\* ------------------------------------------------------------------ price table: data

\* The nine capacity ratings, in the order of the code's list.
BTU_OPTIONS ==
  << "7000", "9000", "12000", "18000", "24000", "30000", "36000", "48000",
     "60000" >>

BtuValues == {BTU_OPTIONS[i] : i \in 1..Len(BTU_OPTIONS)}

\* The equipment categories of the page.
EQUIPMENT_TYPES ==
  {"split", "cassete", "piso_teto", "multi_split", "janela", "portatil"}

\* Texts typed into the price inputs.
TxtMixed == <<"1", "2", "a", ".", "3", ",", "4">>
TxtZero  == <<"0">>
PriceTexts == {TxtMixed, TxtZero, TxtLetters, TxtEmpty}

\* An object without keys.
NoEntries == [k \in {} |-> <<>>]

\* {...obj, [key]: value}
Put(obj, key, value) ==
  [k \in (DOMAIN obj) \cup {key} |-> IF k = key THEN value ELSE obj[k]]

\* The id of a price table that was not read from the store (undefined).
NoId == <<>>

\* useState({installation_prices: {}, cleaning_prices: {}})
NoPrices ==
  [id |-> NoId, installation_prices |-> NoEntries,
   cleaning_prices |-> NoEntries]

\* The two tables of a price-table value or of a store row, without its id.
TablesOf(prices) ==
  [installation_prices |-> prices.installation_prices,
   cleaning_prices |-> prices.cleaning_prices]

\* The row the service_prices table holds before the session, when it holds
\* one.
SeedRow ==
  [id |-> <<"row", 0>>,
   installation_prices |-> Put(NoEntries, "split", Put(NoEntries, "7000", <<"9">>)),
   cleaning_prices |-> Put(NoEntries, "split", <<"8">>),
   created_at |-> 0]

\* What the session has done so far: the setter calls it made, in order,
\* the tables its latest edit produced, the time of the latest edit whose
\* persist the store applied and whose answer the page has received, and
\* whether a request failed.
NoHistory ==
  [edits |-> <<>>, issued |-> TablesOf(NoPrices), persisted |-> 0,
   failed |-> FALSE]

\* The price table of the administration page is not in use.
PricesClosed ==
  /\ servicePrices = NoPrices
  /\ priceStore = {}
  /\ priceCalls = {}
  /\ clock = 0
  /\ history = NoHistory

\* useState({ name: '', unit: '', default_price: '' })
BlankMaterial == [name |-> "", unit |-> "", default_price |-> ""]

\* The texts typed into the fields of the material to add.
NewMaterialTexts == [name |-> "Bucha", unit |-> "un", default_price |-> "2"]

\* The material list of the administration page is not in use.
MaterialsClosed ==
  /\ adminMaterials = <<>>
  /\ materialStore = {}
  /\ materialCalls = {}
  /\ newMaterial = BlankMaterial

\* The administration page is not open.
AdminClosed == PricesClosed /\ MaterialsClosed

\* ------------------------------------------------------------------ form

BlankCustomer == [id |-> "", name |-> "", phone |-> ""]

\* Values the form's customer fields are set to: a new customer's name, or
\* a reference to an existing customer.
CustomerInputs ==
  { BlankCustomer,
    [id |-> "", name |-> "Ana", phone |-> ""],
    [id |-> "c1", name |-> "Ana", phone |-> "99"] }

\* useForm's defaultValues: one blank service line, no customer.
DefaultServices == << BlankService >>

NoTotals == [shown |-> FALSE, services |-> 0, materials |-> 0, total |-> 0]

NoRows ==
  [customers |-> <<>>, service_orders |-> <<>>, order_services |-> <<>>,
   service_order_materials |-> <<>>]

Call(op, arg) == [op |-> op, arg |-> arg]

\* A handler call that prints nothing, writes nothing and shows no toast.
Quiet(op, arg) ==
  /\ lastOp' = Call(op, arg)
  /\ pdfTotals' = NoTotals
  /\ inserted' = NoRows
  /\ toast' = ""

Init ==
  /\ materials = <<>>
  /\ selectedMaterials = <<>>
  /\ services = DefaultServices
  /\ customer = BlankCustomer
  /\ discount = 0
  /\ loading = TRUE
  /\ lastOp = Call("mount", <<>>)
  /\ pdfTotals = NoTotals
  /\ inserted = NoRows
  /\ toast = ""
  /\ AdminClosed

\* The load started by the mount effect completes: setMaterials(data), or
\* an error toast and no change.
loadMaterials(ok) ==
  /\ loading
  /\ loading' = FALSE
  /\ lastOp' = Call("loadMaterials", <<ok>>)
  /\ pdfTotals' = NoTotals
  /\ inserted' = NoRows
  /\ IF ok
     THEN materials' = Catalog /\ toast' = ""
     ELSE materials' = materials /\ toast' = "Erro ao carregar materiais"
  /\ UNCHANGED << selectedMaterials, services, customer, discount >>
  /\ UNCHANGED adminVars

\* materials.find(m => m.id === materialId)
findMaterial(materialId) ==
  LET hits == {i \in 1..Len(materials) : materials[i].id = materialId}
  IN  IF hits = {} THEN <<>>
      ELSE << materials[CHOOSE i \in hits : \A j \in hits : i <= j] >>

\* Mutant of addMaterial: a material already selected gets its line's
\* quantity raised instead of a new line.
addMaterialMerging(materialId) ==
  LET material == findMaterial(materialId)
      same == {i \in 1..Len(selectedMaterials) :
                 material # <<>> /\ selectedMaterials[i].material = material[1]}
  IN  /\ Len(selectedMaterials) < MaxLines
      /\ selectedMaterials' =
           IF material = <<>> THEN selectedMaterials
           ELSE IF same # {}
           THEN [i \in 1..Len(selectedMaterials) |->
                   IF i \in same
                   THEN [selectedMaterials[i] EXCEPT !.quantity = @ + 1]
                   ELSE selectedMaterials[i]]
           ELSE Append(selectedMaterials,
                       [material |-> material[1], quantity |-> 1])
      /\ Quiet("addMaterial", <<materialId>>)
      /\ UNCHANGED << materials, services, customer, discount, loading >>
      /\ UNCHANGED adminVars

addMaterial(materialId) ==
  LET material == findMaterial(materialId)
  IN  /\ Len(selectedMaterials) < MaxLines
      /\ selectedMaterials' =
           IF material # <<>>
           THEN Append(selectedMaterials,
                       [material |-> material[1], quantity |-> 1])
           ELSE selectedMaterials
      /\ Quiet("addMaterial", <<materialId>>)
      /\ UNCHANGED << materials, services, customer, discount, loading >>
      /\ UNCHANGED adminVars

Max(a, b) == IF a >= b THEN a ELSE b

\* Mutant of updateMaterialQuantity: the quantity is stored as given.
updateMaterialQuantityUnclamped(index, quantity) ==
  /\ index \in 1..Len(selectedMaterials)
  /\ selectedMaterials' = [selectedMaterials EXCEPT ![index].quantity = quantity]
  /\ Quiet("updateMaterialQuantity", <<index, quantity>>)
  /\ UNCHANGED << materials, services, customer, discount, loading >>
  /\ UNCHANGED adminVars

\* index is the line's position, counted from 1 (the code counts from 0).
updateMaterialQuantity(index, quantity) ==
  /\ index \in 1..Len(selectedMaterials)
  /\ selectedMaterials' =
       [selectedMaterials EXCEPT ![index].quantity = Max(1, quantity)]
  /\ Quiet("updateMaterialQuantity", <<index, quantity>>)
  /\ UNCHANGED << materials, services, customer, discount, loading >>
  /\ UNCHANGED adminVars

\* prev.filter((_, i) => i !== index)
RECURSIVE filterIndex(_, _, _)
filterIndex(lines, i, index) ==
  IF lines = <<>> THEN <<>>
  ELSE (IF i # index THEN << Head(lines) >> ELSE <<>>)
         \o filterIndex(Tail(lines), i + 1, index)

\* Mutant of removeMaterial: every line of the same material is removed.
removeMaterialOfSameKind(index) ==
  /\ index \in 1..Len(selectedMaterials)
  /\ selectedMaterials' =
       SelectSeq(selectedMaterials,
                 LAMBDA l : l.material # selectedMaterials[index].material)
  /\ Quiet("removeMaterial", <<index>>)
  /\ UNCHANGED << materials, services, customer, discount, loading >>
  /\ UNCHANGED adminVars

removeMaterial(index) ==
  /\ index \in 1..Len(selectedMaterials)
  /\ selectedMaterials' = filterIndex(selectedMaterials, 1, index)
  /\ Quiet("removeMaterial", <<index>>)
  /\ UNCHANGED << materials, services, customer, discount, loading >>
  /\ UNCHANGED adminVars

\* The form library stores an edit of service line i (a new line when i is
\* one past the last).
setServiceLine(i, line) ==
  /\ i \in 1..(Len(services) + 1)
  /\ i <= MaxServices
  /\ services' = IF i <= Len(services)
                 THEN [services EXCEPT ![i] = line]
                 ELSE Append(services, line)
  /\ Quiet("setServiceLine", <<i>>)
  /\ UNCHANGED << materials, selectedMaterials, customer, discount, loading >>
  /\ UNCHANGED adminVars

\* The form library stores an edit of the customer fields.
setCustomer(c) ==
  /\ customer' = c
  /\ Quiet("setCustomer", <<>>)
  /\ UNCHANGED << materials, selectedMaterials, services, discount, loading >>
  /\ UNCHANGED adminVars

handleDiscountChange(text) ==
  /\ discount' = discountOf(text)
  /\ Quiet("handleDiscountChange", <<text>>)
  /\ UNCHANGED << materials, selectedMaterials, services, customer, loading >>
  /\ UNCHANGED adminVars

\* Mutant of resetForm: the selected material lines are kept.
resetFormKeepingMaterials ==
  /\ services' = << BlankService >>
  /\ customer' = BlankCustomer
  /\ Quiet("resetForm", << Len(selectedMaterials), Len(services) >>)
  /\ UNCHANGED << materials, selectedMaterials, discount, loading >>
  /\ UNCHANGED adminVars

\* reset({services: [blank]}), setSelectedMaterials([]), setAddress(blank),
\* setCustomServiceValue('').  reset(values) replaces the form's values, so
\* the customer fields go back to blank.  The call is recorded with the
\* numbers of material and service lines it found.
resetForm ==
  /\ services' = << BlankService >>
  /\ customer' = BlankCustomer
  /\ selectedMaterials' = <<>>
  /\ Quiet("resetForm", << Len(selectedMaterials), Len(services) >>)
  /\ UNCHANGED << materials, discount, loading >>
  /\ UNCHANGED adminVars

\* The totals generatePDF prints.
generatePDF ==
  /\ lastOp' = Call("generatePDF", <<>>)
  /\ pdfTotals' = [shown |-> TRUE,
                   services |-> calculateServicesTotal,
                   materials |-> calculateMaterialsTotal,
                   total |-> calculateTotal]
  /\ inserted' = NoRows
  /\ toast' = ""
  /\ UNCHANGED << materials, selectedMaterials, services, customer,
                  discount, loading >>
  /\ UNCHANGED adminVars

\* ------------------------------------------------------------------ submit

\* Service lines the submitted form is edited with.
SubmitServiceLines ==
  { Service("maintenance", "", TxtComma),
    Service("cleaning", "", TxtEmpty),
    Service("cleaning", "split", TxtEmpty) }

NewCustomerId == "c_new"
NewOrderId == "o_new"

ToastNoCustomer == "Erro ao criar cliente"
ToastNoEquipment ==
  "Por favor, selecione o tipo de equipamento para o servico de limpeza"
ToastSuccess == "Ordem de servico criada com sucesso!"
ToastFailure == "Erro ao criar ordem de servico"

\* The order header onSubmit inserts.  The address and location columns
\* are not modelled.  The three amounts read from the state are rounded
\* amounts; total is the double that the sum and the difference of the
\* doubles they stand for give.
orderHeader(data, customerId) ==
  LET first == IF Len(data.services) >= 1
               THEN data.services[1] ELSE BlankService
      materialsTotal == calculateMaterialsTotal
      servicesTotal  == calculateServicesTotal
  IN  [ id |-> NewOrderId,
        customer_id |-> customerId,
        service_type |-> first.service_type,
        equipment_type |-> first.equipment_type,
        equipment_power |-> first.equipment_power,
        description |-> first.description,
        status |-> "pending",
        customer_phone |-> data.customer.phone,
        materials_amount |-> materialsTotal,
        services_amount |-> servicesTotal,
        discount_amount |-> discount,
        total_amount |->
          doubleSub(doubleAdd(toDouble(materialsTotal), toDouble(servicesTotal)),
                    toDouble(discount)) ]

servicesData(data) ==
  [ i \in 1..Len(data.services) |->
      [ service_order_id |-> NewOrderId,
        service_type |-> data.services[i].service_type,
        equipment_type |-> data.services[i].equipment_type,
        equipment_power |-> data.services[i].equipment_power,
        description |-> data.services[i].description,
        price |-> serviceValue(data.services[i]) ] ]

materialsData ==
  [ i \in 1..Len(selectedMaterials) |->
      [ service_order_id |-> NewOrderId,
        material_id |-> selectedMaterials[i].material.id,
        quantity |-> selectedMaterials[i].quantity,
        unit_price |-> selectedMaterials[i].material.default_price ] ]

\* Mutant of cleaningWithoutEquipment: a first line without a service type
\* needs an equipment category too.
cleaningOrUntypedWithoutEquipment(data) ==
  /\ Len(data.services) >= 1
  /\ data.services[1].service_type \in {"cleaning", ""}
  /\ data.services[1].equipment_type = ""

\* The cleaning validation: the first service line only.
cleaningWithoutEquipment(data) ==
  /\ Len(data.services) >= 1
  /\ data.services[1].service_type = "cleaning"
  /\ data.services[1].equipment_type = ""

\* What one call of onSubmit does, the store answering its four inserts
\* with success or an error: the rows inserted, the toast shown, and
\* whether the form was reset.
submitOutcome(data, customerOk, orderOk, servicesOk, materialsOk) ==
  LET createsCustomer == data.customer.id = "" /\ data.customer.name # ""
      customerRows ==
        IF createsCustomer /\ customerOk
        THEN << [id |-> NewCustomerId, name |-> data.customer.name,
                 phone |-> data.customer.phone] >>
        ELSE <<>>
      customerId ==
        IF data.customer.id # "" THEN data.customer.id
        ELSE IF createsCustomer THEN NewCustomerId ELSE ""
      rows(orders, servs, mats) ==
        [customers |-> customerRows, service_orders |-> orders,
         order_services |-> servs, service_order_materials |-> mats]
      header == << orderHeader(data, customerId) >>
      out(r, t, done) == [rows |-> r, toast |-> t, reset |-> done]
  IN  IF createsCustomer /\ ~customerOk
        THEN out(rows(<<>>, <<>>, <<>>), ToastFailure, FALSE)
      ELSE IF customerId = ""
        THEN out(rows(<<>>, <<>>, <<>>), ToastNoCustomer, FALSE)
      ELSE IF cleaningWithoutEquipment(data)
        THEN out(rows(<<>>, <<>>, <<>>), ToastNoEquipment, FALSE)
      ELSE IF ~orderOk
        THEN out(rows(<<>>, <<>>, <<>>), ToastFailure, FALSE)
      ELSE IF Len(data.services) > 0 /\ ~servicesOk
        THEN out(rows(header, <<>>, <<>>), ToastFailure, FALSE)
      ELSE IF Len(selectedMaterials) > 0 /\ ~materialsOk
        THEN out(rows(header, servicesData(data), <<>>), ToastFailure, FALSE)
      ELSE out(rows(header, servicesData(data), materialsData),
               ToastSuccess, TRUE)

\* handleSubmit(onSubmit): data is the form's values.  On success reset()
\* puts the form back to its default values; selectedMaterials and discount
\* are not touched.  The call is recorded with data and the store's answers.
onSubmit(customerOk, orderOk, servicesOk, materialsOk) ==
  LET data == [customer |-> customer, services |-> services]
      o == submitOutcome(data, customerOk, orderOk, servicesOk, materialsOk)
  IN  /\ lastOp' = Call("onSubmit",
                        << data, customerOk, orderOk, servicesOk, materialsOk >>)
      /\ pdfTotals' = NoTotals
      /\ inserted' = o.rows
      /\ toast' = o.toast
      /\ services' = IF o.reset THEN DefaultServices ELSE services
      /\ customer' = IF o.reset THEN BlankCustomer ELSE customer
      /\ UNCHANGED << materials, selectedMaterials, discount, loading >>
      /\ UNCHANGED adminVars

\* ------------------------------------------------------------------ price table

ToastPricesSaved == "Precos salvos com sucesso!"
ToastPricesFailed == "Erro ao salvar precos"

\* Mutant of exactValue: the decimal point is removed as well.
exactValueDigitsOnly(value) == SelectSeq(value, LAMBDA c : c \in Digits)

\* value.replace(/[^0-9.]/g, '')
exactValue(value) == SelectSeq(value, LAMBDA c : c \in Digits \cup {"."})

\* A request in flight.  A save carries the table it persists (prices, with
\* the id it had in memory) and the table the edit started from (prev, the
\* argument of the state updater); n is the time of the edit that issued
\* it, which is the created_at it writes.  A load issued by the save of
\* time n carries n; the load of the mount effect carries 0.  phase is
\* "sent" until the store has answered, then "answered" with the result
\* ("ok", "error" for an error returned by the store, "throw" for a call
\* that threw) and, for a load, the row read (data).
\* No row.
NoRow ==
  [id |-> NoId, installation_prices |-> NoEntries,
   cleaning_prices |-> NoEntries, created_at |-> 0]

SaveCall(n, prices, prev) ==
  [kind |-> "save", n |-> n, phase |-> "sent", prices |-> prices,
   prev |-> prev, result |-> "", data |-> NoRow]

LoadCall(n) ==
  [kind |-> "load", n |-> n, phase |-> "sent", prices |-> NoPrices,
   prev |-> NoPrices, result |-> "", data |-> NoRow]

\* handleSave(prices) up to its await: priceData gets the current time and
\* the update (the table has an id) or insert (it has none) is sent.
handleSave(prices, prev) ==
  /\ clock' = clock + 1
  /\ priceCalls' = priceCalls \cup {SaveCall(clock + 1, prices, prev)}

\* setServicePrices(prev => { ...; handleSave(newPrices); return newPrices })
setServicePrices(newPrices, op, arg) ==
  /\ clock < MaxEdits
  /\ servicePrices' = newPrices
  /\ handleSave(newPrices, servicePrices)
  /\ history' = [history EXCEPT !.issued = TablesOf(newPrices),
                                !.edits = Append(@, Call(op, arg))]
  /\ lastOp' = Call(op, arg)
  /\ toast' = ""
  /\ UNCHANGED priceStore
  /\ UNCHANGED formVars
  /\ UNCHANGED materialVars

\* Mutant of updateAllBTUPrices: the entries the category already has are
\* kept.
updateAllBTUPricesKeeping(equipmentType, value) ==
  LET exact == exactValue(value)
      old == IF equipmentType \in DOMAIN servicePrices.installation_prices
             THEN servicePrices.installation_prices[equipmentType]
             ELSE NoEntries
      row == [btu \in BtuValues |->
                IF btu \in DOMAIN old THEN old[btu] ELSE exact]
  IN  setServicePrices(
        [servicePrices EXCEPT
           !.installation_prices = Put(@, equipmentType, row)],
        "updateAllBTUPrices", << equipmentType, value >>)

updateAllBTUPrices(equipmentType, value) ==
  LET exactValue_ == exactValue(value)
      row == [btu \in BtuValues |-> exactValue_]
  IN  setServicePrices(
        [servicePrices EXCEPT
           !.installation_prices = Put(@, equipmentType, row)],
        "updateAllBTUPrices", << equipmentType, value >>)

\* Mutant of updateInstallationPrice: the category's other capacities are
\* not spread into the new entry.
updateInstallationPriceReplacing(type, btu, value) ==
  LET exactValue_ == exactValue(value)
  IN  setServicePrices(
        [servicePrices EXCEPT
           !.installation_prices =
              Put(@, type, Put(NoEntries, btu, exactValue_))],
        "updateInstallationPrice", << type, btu, value >>)

updateInstallationPrice(type, btu, value) ==
  LET exactValue_ == exactValue(value)
      old == IF type \in DOMAIN servicePrices.installation_prices
             THEN servicePrices.installation_prices[type]
             ELSE NoEntries
  IN  setServicePrices(
        [servicePrices EXCEPT
           !.installation_prices = Put(@, type, Put(old, btu, exactValue_))],
        "updateInstallationPrice", << type, btu, value >>)

updateCleaningPrice(type, value) ==
  LET exactValue_ == exactValue(value)
  IN  setServicePrices(
        [servicePrices EXCEPT
           !.cleaning_prices = Put(@, type, exactValue_)],
        "updateCleaningPrice", << type, value >>)

Answered(c, result, data) ==
  [c EXCEPT !.phase = "answered", !.result = result, !.data = data]

\* The store handles a save: supabase.from('service_prices').update(
\* priceData).eq('id', prices.id), or .insert([priceData]) when the table in
\* memory had no id.  The new row's id is made from the time of the edit.
servicePricesWrite(c, result) ==
  LET priceData == [installation_prices |-> c.prices.installation_prices,
                    cleaning_prices |-> c.prices.cleaning_prices,
                    created_at |-> c.n]
      updated == { IF r.id = c.prices.id
                   THEN [id |-> r.id,
                         installation_prices |-> priceData.installation_prices,
                         cleaning_prices |-> priceData.cleaning_prices,
                         created_at |-> priceData.created_at]
                   ELSE r : r \in priceStore }
      insertedRow == [id |-> <<"row", c.n>>,
                      installation_prices |-> priceData.installation_prices,
                      cleaning_prices |-> priceData.cleaning_prices,
                      created_at |-> priceData.created_at]
  IN  /\ c \in priceCalls
      /\ c.kind = "save" /\ c.phase = "sent"
      /\ priceStore' =
           IF result # "ok" THEN priceStore
           ELSE IF c.prices.id # NoId THEN updated
           ELSE priceStore \cup {insertedRow}
      /\ priceCalls' = (priceCalls \ {c}) \cup {Answered(c, result, NoRow)}
      /\ history' = [history EXCEPT !.failed = @ \/ result # "ok"]
      /\ lastOp' = Call("servicePricesWrite", <<>>)
      /\ toast' = ""
      /\ UNCHANGED << servicePrices, clock >>
      /\ UNCHANGED formVars
      /\ UNCHANGED materialVars

\* Mutant of handleSaveReturns: no reload after the save.
handleSaveReturnsWithoutReload(c) ==
  /\ c \in priceCalls
  /\ c.kind = "save" /\ c.phase = "answered"
  /\ priceCalls' = priceCalls \ {c}
  /\ toast' = IF c.result = "throw" THEN ToastPricesFailed ELSE ToastPricesSaved
  /\ history' = [history EXCEPT
                   !.persisted = IF c.result = "ok" THEN Max(@, c.n) ELSE @]
  /\ lastOp' = Call("handleSave", << c.n, c.result >>)
  /\ UNCHANGED << servicePrices, priceStore, clock >>
  /\ UNCHANGED formVars
  /\ UNCHANGED materialVars

\* handleSave after its await.  The value the store call returned is not
\* looked at: unless the call threw, the success toast is shown and
\* loadServicePrices() is called (not awaited).  A call that threw shows the
\* error toast.
handleSaveReturns(c) ==
  /\ c \in priceCalls
  /\ c.kind = "save" /\ c.phase = "answered"
  /\ IF c.result = "throw"
     THEN /\ priceCalls' = priceCalls \ {c}
          /\ toast' = ToastPricesFailed
     ELSE /\ priceCalls' = (priceCalls \ {c}) \cup {LoadCall(c.n)}
          /\ toast' = ToastPricesSaved
  /\ history' = [history EXCEPT
                   !.persisted = IF c.result = "ok" THEN Max(@, c.n) ELSE @]
  /\ lastOp' = Call("handleSave", << c.n, c.result >>)
  /\ UNCHANGED << servicePrices, priceStore, clock >>
  /\ UNCHANGED formVars
  /\ UNCHANGED materialVars

\* The store row as loadServicePrices puts it in memory.
Loaded(row) ==
  [id |-> row.id, installation_prices |-> row.installation_prices,
   cleaning_prices |-> row.cleaning_prices]

\* The row with the latest created_at.
Latest(rows) == CHOOSE r \in rows : \A q \in rows : q.created_at <= r.created_at

\* The store handles a load: select('*').order('created_at', {ascending:
\* false}).limit(1).single().  single() answers with an error when the
\* table has no row.
servicePricesSelect(c) ==
  /\ c \in priceCalls
  /\ c.kind = "load" /\ c.phase = "sent"
  /\ priceCalls' =
       (priceCalls \ {c}) \cup
         { IF priceStore # {}
           THEN Answered(c, "ok", Latest(priceStore))
           ELSE Answered(c, "error", NoRow) }
  /\ history' = [history EXCEPT !.failed = @ \/ priceStore = {}]
  /\ lastOp' = Call("servicePricesSelect", <<>>)
  /\ toast' = ""
  /\ UNCHANGED << servicePrices, priceStore, clock >>
  /\ UNCHANGED formVars
  /\ UNCHANGED materialVars

\* loadServicePrices after its await: the table in memory is replaced by
\* the row read; an error is logged and nothing changes.
loadServicePricesReturns(c) ==
  /\ c \in priceCalls
  /\ c.kind = "load" /\ c.phase = "answered"
  /\ servicePrices' = IF c.result = "ok" THEN Loaded(c.data) ELSE servicePrices
  /\ priceCalls' = priceCalls \ {c}
  /\ lastOp' = Call("loadServicePrices", << c.n, c.result >>)
  /\ toast' = ""
  /\ UNCHANGED << priceStore, clock, history >>
  /\ UNCHANGED formVars
  /\ UNCHANGED materialVars

\* Mutant of installationPriceCell: a cell without entry shows zero.
installationPriceCellOrZero(id, value) ==
  IF id \in DOMAIN servicePrices.installation_prices
  THEN IF value \in DOMAIN servicePrices.installation_prices[id]
       THEN servicePrices.installation_prices[id][value]
       ELSE <<"0">>
  ELSE <<"0">>

\* value={servicePrices.installation_prices[id]?.[value] || ''}
installationPriceCell(id, value) ==
  IF id \in DOMAIN servicePrices.installation_prices
  THEN IF value \in DOMAIN servicePrices.installation_prices[id]
       THEN servicePrices.installation_prices[id][value]
       ELSE <<>>
  ELSE <<>>

\* value={servicePrices.cleaning_prices[id] || ''}
cleaningPriceCell(id) ==
  IF id \in DOMAIN servicePrices.cleaning_prices
  THEN servicePrices.cleaning_prices[id]
  ELSE <<>>

\* ------------------------------------------------------------------ material list

\* The rows of the store's materials table before the session.
MaterialRows ==
  { [id |-> "m1", name |-> "Cabo"],
    [id |-> "m2", name |-> "Dreno"],
    [id |-> "m3", name |-> "Fita"],
    [id |-> "m4", name |-> "Tubo"],
    [id |-> "m5", name |-> "Valvula"] }

\* The material ids the rows of the store's service_order_materials table
\* refer to.  Nothing on this page writes that table.
OrderLineMaterialIds == {"m1"}

\* The names in their sort order.
NameOrder == << "Cabo", "Dreno", "Fita", "Tubo", "Valvula" >>

\* select('*').order('name')
RECURSIVE orderByName(_, _)
orderByName(rows, i) ==
  IF i > Len(NameOrder) THEN <<>>
  ELSE LET named == {r \in rows : r.name = NameOrder[i]}
       IN  (IF named = {} THEN <<>> ELSE << CHOOSE r \in named : TRUE >>)
             \o orderByName(rows, i + 1)

ToastMaterialInUse ==
  "Este material nao pode ser excluido pois esta sendo usado em ordens de servico"
ToastMaterialRemoved == "Material removido com sucesso!"
ToastMaterialRemoveFailed == "Erro ao remover material"
ToastMaterialsLoadFailed == "Erro ao carregar materiais"

ToastMaterialIncomplete == "Preencha todos os campos do material"
ToastMaterialAdded == "Material adicionado com sucesso!"
ToastMaterialAddFailed == "Erro ao adicionar material"
ToastMaterialUpdated == "Material atualizado com sucesso!"
ToastMaterialUpdateFailed == "Erro ao atualizar material"

\* A handler suspended at a store call: the handler, the material id it was
\* called with, the await it is at, the material list its closure holds
\* (the list of the render the handler was created in), and the fields it
\* sent to the store, none here.
MaterialCall(op, id, at, closure) ==
  [op |-> op, id |-> id, at |-> at, materials |-> closure,
   updates |-> NoEntries]

\* The admin page's loadMaterials returns: setMaterials(data), or an error
\* toast.
adminLoadMaterialsReturns(c, ok) ==
  /\ c \in materialCalls
  /\ c.op = "loadMaterials"
  /\ materialCalls' = materialCalls \ {c}
  /\ IF ok
     THEN adminMaterials' = orderByName(materialStore, 1) /\ toast' = ""
     ELSE adminMaterials' = adminMaterials /\ toast' = ToastMaterialsLoadFailed
  /\ lastOp' = Call("loadMaterials", << ok >>)
  /\ UNCHANGED << materialStore, newMaterial >>
  /\ UNCHANGED priceVars
  /\ UNCHANGED formVars

\* handleDeleteMaterial(id) up to its first await: the select on
\* service_order_materials is sent.  The delete button is shown for the
\* materials of the list.
handleDeleteMaterial(id) ==
  /\ \E i \in 1..Len(adminMaterials) : adminMaterials[i].id = id
  /\ materialCalls' =
       materialCalls \cup
         {MaterialCall("handleDeleteMaterial", id, "check", adminMaterials)}
  /\ lastOp' = Call("handleDeleteMaterial", << id, "called" >>)
  /\ toast' = ""
  /\ UNCHANGED << adminMaterials, materialStore, newMaterial >>
  /\ UNCHANGED priceVars
  /\ UNCHANGED formVars

\* Mutant of handleDeleteMaterialChecked: the rows found are not looked at.
handleDeleteMaterialUnchecked(c, ok) ==
  /\ c \in materialCalls
  /\ c.op = "handleDeleteMaterial" /\ c.at = "check"
  /\ IF ~ok
     THEN /\ materialCalls' = materialCalls \ {c}
          /\ toast' = ToastMaterialRemoveFailed
          /\ lastOp' = Call("handleDeleteMaterial", << c.id, "check failed" >>)
     ELSE /\ materialCalls' = (materialCalls \ {c}) \cup {[c EXCEPT !.at = "delete"]}
          /\ toast' = ""
          /\ lastOp' = Call("handleDeleteMaterial", << c.id, "unused" >>)
  /\ UNCHANGED << adminMaterials, materialStore, newMaterial >>
  /\ UNCHANGED priceVars
  /\ UNCHANGED formVars

\* The select returns and the handler goes on: an error is thrown to the
\* catch; a row found ends the call with the in-use toast; otherwise the
\* delete is sent.
handleDeleteMaterialChecked(c, ok) ==
  LET usedMaterials == {m \in OrderLineMaterialIds : m = c.id}
  IN  /\ c \in materialCalls
      /\ c.op = "handleDeleteMaterial" /\ c.at = "check"
      /\ IF ~ok
         THEN /\ materialCalls' = materialCalls \ {c}
              /\ toast' = ToastMaterialRemoveFailed
              /\ lastOp' = Call("handleDeleteMaterial", << c.id, "check failed" >>)
         ELSE IF usedMaterials # {}
         THEN /\ materialCalls' = materialCalls \ {c}
              /\ toast' = ToastMaterialInUse
              /\ lastOp' = Call("handleDeleteMaterial", << c.id, "in use" >>)
         ELSE /\ materialCalls' =
                   (materialCalls \ {c}) \cup {[c EXCEPT !.at = "delete"]}
              /\ toast' = ""
              /\ lastOp' = Call("handleDeleteMaterial", << c.id, "unused" >>)
      /\ UNCHANGED << adminMaterials, materialStore, newMaterial >>
      /\ UNCHANGED priceVars
      /\ UNCHANGED formVars

\* The delete returns and the handler goes on: the store has removed the
\* row and the handler filters it out of the list of its closure, or the
\* store has answered with an error, which is thrown to the catch.
handleDeleteMaterialReturns(c, ok) ==
  /\ c \in materialCalls
  /\ c.op = "handleDeleteMaterial" /\ c.at = "delete"
  /\ materialCalls' = materialCalls \ {c}
  /\ IF ok
     THEN /\ materialStore' = {r \in materialStore : r.id # c.id}
          /\ adminMaterials' = SelectSeq(c.materials, LAMBDA m : m.id # c.id)
          /\ toast' = ToastMaterialRemoved
          /\ lastOp' = Call("handleDeleteMaterial", << c.id, "removed" >>)
     ELSE /\ UNCHANGED << materialStore, adminMaterials >>
          /\ toast' = ToastMaterialRemoveFailed
          /\ lastOp' = Call("handleDeleteMaterial", << c.id, "delete failed" >>)
  /\ UNCHANGED newMaterial
  /\ UNCHANGED priceVars
  /\ UNCHANGED formVars

\* The input fields of the material to add:
\* setNewMaterial({ ...newMaterial, [field]: e.target.value })
setNewMaterial(field, text) ==
  /\ newMaterial' = [newMaterial EXCEPT ![field] = text]
  /\ lastOp' = Call("setNewMaterial", << field, text >>)
  /\ toast' = ""
  /\ UNCHANGED << adminMaterials, materialStore, materialCalls >>
  /\ UNCHANGED priceVars
  /\ UNCHANGED formVars

\* handleAddMaterial() up to its first await: a blank field ends the call
\* with a toast; otherwise the insert is sent with the name of the fields.
\* The rows of this model carry the id and the name of a material; the unit
\* and the price are sent with the name and do not appear in the row.
handleAddMaterial ==
  /\ IF newMaterial.name = "" \/ newMaterial.unit = ""
          \/ newMaterial.default_price = ""
     THEN /\ materialCalls' = materialCalls
          /\ toast' = ToastMaterialIncomplete
          /\ lastOp' = Call("handleAddMaterial", << "", "incomplete" >>)
     ELSE /\ materialCalls' =
               materialCalls \cup
                 {[MaterialCall("handleAddMaterial", "", "insert", adminMaterials)
                     EXCEPT !.updates = [name |-> newMaterial.name]]}
          /\ toast' = ""
          /\ lastOp' = Call("handleAddMaterial", << "", "called" >>)
  /\ UNCHANGED << adminMaterials, materialStore, newMaterial >>
  /\ UNCHANGED priceVars
  /\ UNCHANGED formVars

\* The id the store gives to the next row inserted: one that no row had
\* before.  Inserted rows are counted by their ids, which are not those of
\* the rows the table started with.
NextMaterialId ==
  "n" \o ToString(Cardinality({r \in materialStore :
                                 r.id \notin {m.id : m \in MaterialRows}}) + 1)

\* The insert returns and the handler goes on: the store has inserted the
\* row and returned it, the handler appends it to the list of its closure
\* and blanks the fields; or the store has answered with an error, which is
\* thrown to the catch.
handleAddMaterialReturns(c, ok) ==
  LET data == [id |-> NextMaterialId, name |-> c.updates.name]
  IN  /\ c \in materialCalls
      /\ c.op = "handleAddMaterial" /\ c.at = "insert"
      /\ materialCalls' = materialCalls \ {c}
      /\ IF ok
         THEN /\ materialStore' = materialStore \cup {data}
              /\ adminMaterials' = Append(c.materials, data)
              /\ newMaterial' = BlankMaterial
              /\ toast' = ToastMaterialAdded
              /\ lastOp' = Call("handleAddMaterial", << data.id, "added" >>)
         ELSE /\ UNCHANGED << materialStore, adminMaterials, newMaterial >>
              /\ toast' = ToastMaterialAddFailed
              /\ lastOp' = Call("handleAddMaterial", << "", "insert failed" >>)
      /\ UNCHANGED priceVars
      /\ UNCHANGED formVars

\* { ...m, ...updates } for updates of fields the rows carry.
Merge(m, updates) ==
  [f \in DOMAIN m |-> IF f \in DOMAIN updates THEN updates[f] ELSE m[f]]

\* handleUpdateMaterial(id, updates) up to its await: the update is sent.
\* The input fields are shown for the materials of the list.
handleUpdateMaterial(id, updates) ==
  /\ \E i \in 1..Len(adminMaterials) : adminMaterials[i].id = id
  /\ materialCalls' =
       materialCalls \cup
         {[MaterialCall("handleUpdateMaterial", id, "update", adminMaterials)
             EXCEPT !.updates = updates]}
  /\ lastOp' = Call("handleUpdateMaterial", << id, "called" >>)
  /\ toast' = ""
  /\ UNCHANGED << adminMaterials, materialStore, newMaterial >>
  /\ UNCHANGED priceVars
  /\ UNCHANGED formVars

\* The update returns and the handler goes on: the store has updated the
\* row of that id, if it has one, and the handler maps the list of its
\* closure; or the store has answered with an error, which is thrown to
\* the catch.
handleUpdateMaterialReturns(c, ok) ==
  /\ c \in materialCalls
  /\ c.op = "handleUpdateMaterial" /\ c.at = "update"
  /\ materialCalls' = materialCalls \ {c}
  /\ IF ok
     THEN /\ materialStore' =
               {IF r.id = c.id THEN Merge(r, c.updates) ELSE r : r \in materialStore}
          /\ adminMaterials' =
               [i \in 1..Len(c.materials) |->
                  IF c.materials[i].id = c.id
                  THEN Merge(c.materials[i], c.updates)
                  ELSE c.materials[i]]
          /\ toast' = ToastMaterialUpdated
          /\ lastOp' = Call("handleUpdateMaterial", << c.id, "updated" >>)
     ELSE /\ UNCHANGED << materialStore, adminMaterials >>
          /\ toast' = ToastMaterialUpdateFailed
          /\ lastOp' = Call("handleUpdateMaterial", << c.id, "update failed" >>)
  /\ UNCHANGED newMaterial
  /\ UNCHANGED priceVars
  /\ UNCHANGED formVars

\* ------------------------------------------------------------------ specifications

\* Editing the quotation.
Next ==
  \/ \E ok \in BOOLEAN : loadMaterials(ok)
  \/ \E id \in {"m1", "m2", ""} : addMaterial(id)
  \/ \E i \in 1..MaxLines, q \in QuantityInputs : updateMaterialQuantity(i, q)
  \/ \E i \in 1..MaxLines : removeMaterial(i)
  \/ \E i \in 1..MaxServices, line \in EditServiceLines : setServiceLine(i, line)
  \/ \E text \in DiscountTexts : handleDiscountChange(text)
  \/ resetForm

Spec == Init /\ [][Next]_vars

\* The totals of a quotation: any material lines and service lines the
\* handlers can have produced, and the discounts typed after them.
InitCalc ==
  /\ materials = Catalog
  /\ selectedMaterials \in
       SeqsOf([material : CatalogSet,
               quantity : {Max(1, q) : q \in QuantityInputs}], 0, MaxLines)
  /\ services \in SeqsOf(CalcServiceLines, 1, MaxServices)
  /\ customer = BlankCustomer
  /\ discount = 0
  /\ loading = FALSE
  /\ lastOp = Call("mount", <<>>)
  /\ pdfTotals = NoTotals
  /\ inserted = NoRows
  /\ toast = ""
  /\ AdminClosed

NextCalc ==
  \/ \E text \in DiscountTexts : handleDiscountChange(text)
  \/ generatePDF

SpecCalc == InitCalc /\ [][NextCalc]_vars

\* Filling in and submitting the form.
NextSubmit ==
  \/ \E ok \in BOOLEAN : loadMaterials(ok)
  \/ addMaterial("m2")
  \/ \E i \in 1..MaxServices, line \in SubmitServiceLines : setServiceLine(i, line)
  \/ \E c \in CustomerInputs : setCustomer(c)
  \/ handleDiscountChange(TxtTen)
  \/ \E customerOk, orderOk, servicesOk, materialsOk \in BOOLEAN :
       onSubmit(customerOk, orderOk, servicesOk, materialsOk)

SpecSubmit == Init /\ [][NextSubmit]_vars

\* Editing the cells of the price table, after the mount effect's load has
\* completed and while the store has not yet answered the saves: every
\* setter, on two of the categories and two of the capacities, with every
\* text.
PriceCategories == {"split", "janela"}
PriceCapacities == {"7000", "60000"}

InitCells ==
  /\ materials = <<>>
  /\ selectedMaterials = <<>>
  /\ services = DefaultServices
  /\ customer = BlankCustomer
  /\ discount = 0
  /\ loading = TRUE
  /\ pdfTotals = NoTotals
  /\ inserted = NoRows
  /\ lastOp = Call("mount", <<>>)
  /\ toast = ""
  /\ \/ priceStore = {} /\ servicePrices = NoPrices
     \/ priceStore = {SeedRow} /\ servicePrices = Loaded(SeedRow)
  /\ priceCalls = {}
  /\ clock = 0
  /\ history = NoHistory
  /\ MaterialsClosed

NextCells ==
  \/ \E type \in PriceCategories, value \in PriceTexts :
       updateAllBTUPrices(type, value)
  \/ \E type \in PriceCategories, btu \in PriceCapacities, value \in PriceTexts :
       updateInstallationPrice(type, btu, value)
  \/ \E type \in PriceCategories, value \in PriceTexts :
       updateCleaningPrice(type, value)

SpecCells == InitCells /\ [][NextCells]_vars

\* The price table and the store: the mount effect's load, one edit of each
\* kind, and the store's answers reaching the page in any order.
InitPrices ==
  /\ materials = <<>>
  /\ selectedMaterials = <<>>
  /\ services = DefaultServices
  /\ customer = BlankCustomer
  /\ discount = 0
  /\ loading = TRUE
  /\ pdfTotals = NoTotals
  /\ inserted = NoRows
  /\ lastOp = Call("mount", <<>>)
  /\ toast = ""
  /\ servicePrices = NoPrices
  /\ priceStore \in {{}, {SeedRow}}
  /\ priceCalls = {LoadCall(0)}
  /\ clock = 0
  /\ history = NoHistory
  /\ MaterialsClosed

NextPrices ==
  \/ updateAllBTUPrices("split", TxtMixed)
  \/ updateInstallationPrice("split", "7000", TxtZero)
  \/ updateCleaningPrice("split", TxtEmpty)
  \/ \E c \in priceCalls, result \in {"ok", "error", "throw"} :
       servicePricesWrite(c, result)
  \/ \E c \in priceCalls : handleSaveReturns(c)
  \/ \E c \in priceCalls : servicePricesSelect(c)
  \/ \E c \in priceCalls : loadServicePricesReturns(c)

SpecPrices == InitPrices /\ [][NextPrices]_vars

\* The material list of the administration page, one handler call at a
\* time: the mount effect's load, and deletions, each started when no other
\* call is suspended.
InitMaterials ==
  /\ materials = <<>>
  /\ selectedMaterials = <<>>
  /\ services = DefaultServices
  /\ customer = BlankCustomer
  /\ discount = 0
  /\ loading = TRUE
  /\ pdfTotals = NoTotals
  /\ inserted = NoRows
  /\ lastOp = Call("mount", <<>>)
  /\ toast = ""
  /\ PricesClosed
  /\ adminMaterials = <<>>
  /\ materialStore = MaterialRows
  /\ materialCalls = {MaterialCall("loadMaterials", "", "select", <<>>)}
  /\ newMaterial = BlankMaterial

NextMaterials ==
  \/ \E c \in materialCalls, ok \in BOOLEAN : adminLoadMaterialsReturns(c, ok)
  \/ \E id \in {r.id : r \in MaterialRows} :
       materialCalls = {} /\ handleDeleteMaterial(id)
  \/ \E c \in materialCalls, ok \in BOOLEAN : handleDeleteMaterialChecked(c, ok)
  \/ \E c \in materialCalls, ok \in BOOLEAN : handleDeleteMaterialReturns(c, ok)

SpecMaterials == InitMaterials /\ [][NextMaterials]_vars

\* The material list with handler calls that overlap: the list has been
\* loaded, and a handler may be started while others are suspended, up to
\* MaxCalls at a time; up to MaxAdds materials are added.  Deletion is
\* asked for materials of the original list.
InitOverlap ==
  /\ materials = <<>>
  /\ selectedMaterials = <<>>
  /\ services = DefaultServices
  /\ customer = BlankCustomer
  /\ discount = 0
  /\ loading = TRUE
  /\ pdfTotals = NoTotals
  /\ inserted = NoRows
  /\ lastOp = Call("loadMaterials", << TRUE >>)
  /\ toast = ""
  /\ PricesClosed
  /\ adminMaterials = orderByName(MaterialRows, 1)
  /\ materialStore = MaterialRows
  /\ materialCalls = {}
  /\ newMaterial = BlankMaterial

\* Another handler call may be started.
MayStart == Cardinality(materialCalls) < MaxCalls

\* The materials added and being added.
Adds ==
  Cardinality({r \in materialStore : r.id \notin {m.id : m \in MaterialRows}})
    + Cardinality({c \in materialCalls : c.op = "handleAddMaterial"})

NextOverlap ==
  \/ \E field \in DOMAIN NewMaterialTexts :
       newMaterial[field] = "" /\ setNewMaterial(field, NewMaterialTexts[field])
  \/ MayStart /\ Adds < MaxAdds /\ handleAddMaterial
  \/ \E c \in materialCalls, ok \in BOOLEAN : handleAddMaterialReturns(c, ok)
  \/ MayStart /\ handleUpdateMaterial("m2", [name |-> "Duto"])
  \/ \E c \in materialCalls, ok \in BOOLEAN : handleUpdateMaterialReturns(c, ok)
  \/ \E id \in {"m1", "m2", "m3"} : MayStart /\ handleDeleteMaterial(id)
  \/ \E c \in materialCalls, ok \in BOOLEAN : handleDeleteMaterialChecked(c, ok)
  \/ \E c \in materialCalls, ok \in BOOLEAN : handleDeleteMaterialReturns(c, ok)

SpecOverlap == InitOverlap /\ [][NextOverlap]_vars

\* Submitting quotations of every kind: the material lines and the service
\* lines are any of a few with prices and values in cents, the customer is
\* an existing one, and the discount is typed before the submission.
PricedCatalog == << [id |-> "m3", default_price |-> 19900] >>

PricedServiceLines ==
  { BlankService,
    Service("maintenance", "", TxtComma),
    Service("installation", "split", TxtPoint) }

InitAmounts ==
  /\ materials = PricedCatalog
  /\ selectedMaterials \in
       SeqsOf([material : {PricedCatalog[1]}, quantity : {1, 2}], 0, MaxLines)
  /\ services \in SeqsOf(PricedServiceLines, 1, MaxServices)
  /\ customer = [id |-> "c1", name |-> "Ana", phone |-> "99"]
  /\ discount = 0
  /\ loading = FALSE
  /\ lastOp = Call("mount", <<>>)
  /\ pdfTotals = NoTotals
  /\ inserted = NoRows
  /\ toast = ""
  /\ AdminClosed

NextAmounts ==
  \/ \E text \in DiscountTexts : handleDiscountChange(text)
  \/ \E customerOk, orderOk, servicesOk, materialsOk \in BOOLEAN :
       onSubmit(customerOk, orderOk, servicesOk, materialsOk)

SpecAmounts == InitAmounts /\ [][NextAmounts]_vars

\* ------------------------------------------------------------------ properties

\* Rounding to two decimals, a half-cent going away from zero.
RoundHalfAway(x) ==
  IF x >= 0 THEN ((x + 5) \div 10) * 10 ELSE 0 - (((0 - x) + 5) \div 10) * 10

\* y is x rounded to the nearest cent, a half-cent going either way.
IsRounded(y, x) == y % 10 = 0 /\ y - x <= 5 /\ x - y <= 5

\* The sum of f[1..n].
RECURSIVE SumTo(_, _)
SumTo(f, n) == IF n = 0 THEN 0 ELSE SumTo(f, n - 1) + f[n]

\* The sum over the material lines of unit price times quantity, unrounded.
MaterialsSum ==
  SumTo([i \in 1..Len(selectedMaterials) |->
           selectedMaterials[i].material.default_price
             * selectedMaterials[i].quantity],
        Len(selectedMaterials))

\* The decimal value of a custom-value text, in mills: zero when the text
\* is absent or holds no number; "3a" reads as 3, as parseFloat reads it.
CustomValue(text) ==
  CASE text = TxtEmpty   -> 0
    [] text = TxtLetters -> 0
    [] text = TxtComma   -> 1500
    [] text = TxtPoint   -> 2500
    [] text = TxtNegHalf -> 0 - 5
    [] text = TxtPrefix  -> 3000

\* The sum over the service lines of their custom values, unrounded.
ServicesSum ==
  SumTo([i \in 1..Len(services) |->
           CustomValue(services[i].custom_service_value)],
        Len(services))

\* C1: the total generatePDF prints is round2(round2(round2(materials sum)
\* + round2(services sum)) - discount), round2 rounding a half-cent away
\* from zero.
C1_TotalRoundsHalfAwayFromZero ==
  pdfTotals.shown =>
    pdfTotals.total =
      RoundHalfAway(RoundHalfAway(RoundHalfAway(MaterialsSum)
                                    + RoundHalfAway(ServicesSum)) - discount)

\* C2: the materials total is the sum over the lines of unit price times
\* quantity, rounded to the cent once, on the sum.
C2_MaterialsTotalRoundedOnce ==
  pdfTotals.shown => IsRounded(pdfTotals.materials, MaterialsSum)

\* C2 witness: two lines that each end in a half-cent; rounding each line
\* would give 100.02.
C2_Witness ==
  /\ pdfTotals.shown
  /\ Len(selectedMaterials) = 2
  /\ \A i \in 1..2 :
       (selectedMaterials[i].material.default_price
          * selectedMaterials[i].quantity) % 10 = 5
  /\ pdfTotals.materials = 100010

\* C3: the services total is the sum, rounded to the cent, of the custom
\* values of the lines, whatever their service type; a line without a
\* value or with a value that is no number counts zero.
C3_ServicesTotalSumsCustomValues ==
  pdfTotals.shown => IsRounded(pdfTotals.services, ServicesSum)

\* C3 witness: a cleaning line with a decimal point, a maintenance line with
\* a decimal comma: 2.5 + 1.5.
C3_Witness ==
  /\ pdfTotals.shown
  /\ services = << Service("cleaning", "split", TxtPoint),
                   Service("maintenance", "", TxtComma) >>
  /\ pdfTotals.services = 4000

\* C4: every selected material line has a quantity of at least 1, and
\* updateMaterialQuantity called with 0 or less stores 1.
C4_QuantityAtLeastOne ==
  /\ \A i \in 1..Len(selectedMaterials) : selectedMaterials[i].quantity >= 1
  /\ (lastOp.op = "updateMaterialQuantity" /\ lastOp.arg[2] <= 0)
       => selectedMaterials[lastOp.arg[1]].quantity = 1

\* C4 witness: updateMaterialQuantity was called with a negative quantity
\* on the second of two lines.
C4_Witness ==
  /\ lastOp = Call("updateMaterialQuantity", << 2, 0 - 1 >>)
  /\ Len(selectedMaterials) = 2
  /\ selectedMaterials[1].quantity = 2
  /\ selectedMaterials[2].quantity = 1

\* C5: addMaterial for a material of the loaded list appends one line of
\* quantity 1 for it and leaves the lines before it as they were.
C5_AddMaterialAppends ==
  [][ \A k \in 1..Len(materials) :
        lastOp' = Call("addMaterial", << materials[k].id >>)
          => selectedMaterials' =
               selectedMaterials
                 \o << [material |-> materials[k], quantity |-> 1] >> ]_vars

\* C5 witness: the same material was added a second time, after the
\* quantity of its first line was raised.
C5_Witness ==
  /\ lastOp.op = "addMaterial"
  /\ Len(selectedMaterials) = 2
  /\ selectedMaterials[1].material = selectedMaterials[2].material
  /\ selectedMaterials[1].quantity = 2
  /\ selectedMaterials[2].quantity = 1

C7_ResetLeavesOneBlankLine ==
  lastOp.op = "resetForm" =>
    services = << BlankService >> /\ selectedMaterials = <<>>

\* C7 witness: resetForm ran on two material lines and two service lines.
C7_Witness ==
  /\ lastOp = Call("resetForm", << 2, 2 >>)
  /\ services = << BlankService >>
  /\ selectedMaterials = <<>>

\* C8: after resetForm the discount is zero.
C8_ResetZeroesDiscount ==
  lastOp.op = "resetForm" => discount = 0

\* C9: after a submission that passed validation and was stored, the form
\* holds one blank service line, no material line is selected and the
\* discount is zero.
C9_SubmitResetsQuotation ==
  (lastOp.op = "onSubmit" /\ toast = ToastSuccess) =>
    /\ services = << BlankService >>
    /\ selectedMaterials = <<>>
    /\ discount = 0

\* A service line of type cleaning without an equipment category.
UncategorizedCleaning(line) ==
  line.service_type = "cleaning" /\ line.equipment_type = ""

\* C10: a submission with a cleaning line without equipment category, at
\* any position, is rejected: no order is stored and no success is shown;
\* with none, a customer and a store that answers, it is accepted.
C10_CleaningNeedsCategoryOnEveryLine ==
  lastOp.op = "onSubmit" =>
    LET data == lastOp.arg[1]
        uncategorized ==
          \E i \in 1..Len(data.services) : UncategorizedCleaning(data.services[i])
        storeOk == lastOp.arg[2] /\ lastOp.arg[3] /\ lastOp.arg[4] /\ lastOp.arg[5]
        hasCustomer == data.customer.id # "" \/ data.customer.name # ""
    IN  /\ uncategorized =>
             inserted.service_orders = <<>> /\ toast # ToastSuccess
        /\ (~uncategorized /\ hasCustomer /\ storeOk) =>
             Len(inserted.service_orders) = 1 /\ toast = ToastSuccess

\* C11: a submission without customer reference and without customer name
\* is rejected with nothing stored; a submission with a name or a
\* reference and no cleaning line passes validation whatever else is blank,
\* and is stored when the store answers.
C11_OnlyCustomerRequired ==
  lastOp.op = "onSubmit" =>
    LET data == lastOp.arg[1]
        storeOk == lastOp.arg[2] /\ lastOp.arg[3] /\ lastOp.arg[4] /\ lastOp.arg[5]
        hasCustomer == data.customer.id # "" \/ data.customer.name # ""
        cleaning ==
          \E i \in 1..Len(data.services) :
            data.services[i].service_type = "cleaning"
    IN  /\ ~hasCustomer => toast = ToastNoCustomer /\ inserted = NoRows
        /\ (hasCustomer /\ ~cleaning) =>
             /\ toast \notin {ToastNoCustomer, ToastNoEquipment}
             /\ storeOk => Len(inserted.service_orders) = 1
                              /\ toast = ToastSuccess

\* C11 witness: a submission with a customer name and everything else as
\* the form starts (one blank service line, no phone, no material line, no
\* discount) was stored.
C11_Witness ==
  /\ lastOp.op = "onSubmit"
  /\ lastOp.arg[1] = [customer |-> [id |-> "", name |-> "Ana", phone |-> ""],
                      services |-> DefaultServices]
  /\ selectedMaterials = <<>>
  /\ discount = 0
  /\ toast = ToastSuccess
  /\ Len(inserted.service_orders) = 1

\* C12: a submission rejected by validation (no customer, or cleaning
\* without equipment category) has written no row to any table.
C12_RejectedSubmissionWritesNothing ==
  (lastOp.op = "onSubmit" /\ toast \in {ToastNoCustomer, ToastNoEquipment})
    => inserted = NoRows

\* The nine capacity ratings of the fixed enumeration.
NineCapacities ==
  {"7000", "9000", "12000", "18000", "24000", "30000", "36000", "48000",
   "60000"}

\* A price text with every character other than a digit or '.' removed.
Sanitized(text) ==
  CASE text = TxtMixed   -> <<"1", "2", ".", "3", "4">>
    [] text = TxtZero    -> <<"0">>
    [] text = TxtLetters -> <<>>
    [] text = TxtEmpty   -> <<>>

\* C13: after updateAllBTUPrices(category, price) the table in memory holds,
\* for that category, exactly the nine capacity ratings, each with the same
\* sanitized price.
C13_UniformPriceOverwritesAllNine ==
  lastOp.op = "updateAllBTUPrices" =>
    LET category == lastOp.arg[1]
        price == Sanitized(lastOp.arg[2])
    IN  /\ category \in DOMAIN servicePrices.installation_prices
        /\ DOMAIN servicePrices.installation_prices[category] = NineCapacities
        /\ \A btu \in NineCapacities :
             servicePrices.installation_prices[category][btu] = price

\* C13 witness: updateAllBTUPrices("split", "12a.3,4") ran on a table that
\* held another price for split at 7000 and none at 60000.
C13_Witness ==
  /\ lastOp = Call("updateAllBTUPrices", << "split", TxtMixed >>)
  /\ \E c \in priceCalls :
       /\ c.n = clock
       /\ "split" \in DOMAIN c.prev.installation_prices
       /\ DOMAIN c.prev.installation_prices["split"] = {"7000"}
       /\ c.prev.installation_prices["split"]["7000"] = TxtZero
  /\ servicePrices.installation_prices["split"]["7000"] = <<"1", "2", ".", "3", "4">>
  /\ servicePrices.installation_prices["split"]["60000"] = <<"1", "2", ".", "3", "4">>

\* C14: each of the three setters stores in the cell (in every cell of the
\* category, for updateAllBTUPrices) the input text with every character
\* other than a digit or '.' removed; a text of which nothing remains is
\* stored as the empty text.
C14_CellHoldsSanitizedText ==
  LET a == lastOp.arg
  IN  /\ lastOp.op = "updateAllBTUPrices" =>
           \A btu \in NineCapacities :
             servicePrices.installation_prices[a[1]][btu] = Sanitized(a[2])
      /\ lastOp.op = "updateInstallationPrice" =>
           servicePrices.installation_prices[a[1]][a[2]] = Sanitized(a[3])
      /\ lastOp.op = "updateCleaningPrice" =>
           servicePrices.cleaning_prices[a[1]] = Sanitized(a[2])

\* C14 witness: "12a.3,4" was stored as "12.34" in an installation cell,
\* after a text without digit or point was stored as the empty text in a
\* cleaning cell.
C14_Witness ==
  /\ lastOp = Call("updateInstallationPrice", << "split", "7000", TxtMixed >>)
  /\ servicePrices.installation_prices["split"]["7000"] = <<"1", "2", ".", "3", "4">>
  /\ \E c \in priceCalls :
       c.n = 1 /\ c.prices.cleaning_prices = Put(NoEntries, "janela", <<>>)
               /\ c.prev.cleaning_prices = NoEntries
  /\ "janela" \in DOMAIN servicePrices.cleaning_prices
  /\ servicePrices.cleaning_prices["janela"] = <<>>

\* The cell an edit names holds, in the table prices, the sanitized text.
EditIn(prices, call) ==
  LET a == call.arg
  IN  CASE call.op = "updateAllBTUPrices" ->
             \A btu \in NineCapacities :
               prices.installation_prices[a[1]][btu] = Sanitized(a[2])
        [] call.op = "updateInstallationPrice" ->
             prices.installation_prices[a[1]][a[2]] = Sanitized(a[3])
        [] call.op = "updateCleaningPrice" ->
             prices.cleaning_prices[a[1]] = Sanitized(a[2])

PriceSetters ==
  {"updateAllBTUPrices", "updateInstallationPrice", "updateCleaningPrice"}

\* C15: every call of a price setter sends, in the same step, a save of the
\* whole table in memory, which holds the edit; and every save that
\* completes (it did not throw) is followed at once by a load of the table
\* from the store.
C15_EveryEditPersistedAndReloaded ==
  [][ /\ lastOp'.op \in PriceSetters =>
           \E c \in priceCalls' \ priceCalls :
             /\ c.kind = "save" /\ c.phase = "sent" /\ c.n = clock'
             /\ c.prices = servicePrices'
             /\ EditIn(c.prices, lastOp')
      /\ (lastOp'.op = "handleSave" /\ lastOp'.arg[2] # "throw") =>
           /\ LoadCall(lastOp'.arg[1]) \in priceCalls'
           /\ LoadCall(lastOp'.arg[1]) \notin priceCalls ]_vars

\* C15 witness: the save of the second edit has completed and its load is
\* on its way, while the save of the first edit is still with the store.
C15_Witness ==
  /\ lastOp = Call("handleSave", << 2, "ok" >>)
  /\ LoadCall(2) \in priceCalls
  /\ \E c \in priceCalls : c.kind = "save" /\ c.n = 1 /\ c.phase = "sent"

\* C16: a load that was issued after an edit's save never puts in memory a
\* row older than the latest save the session knows to be persisted.
C16_ReloadNeverOlderThanPersisted ==
  [][ \A c \in priceCalls :
        ( /\ c.kind = "load" /\ c.phase = "answered" /\ c.result = "ok"
          /\ c.n >= 1
          /\ lastOp' = Call("loadServicePrices", << c.n, "ok" >>) )
          => c.data.created_at >= history.persisted ]_vars

\* C17: once the session has made edits and every save and load has
\* completed, none with an error, the table in memory is the latest row of
\* the store, and that row holds the table of the latest edit.
C17_QuiescentTableIsLastEdit ==
  (priceCalls = {} /\ clock >= 1 /\ ~history.failed) =>
    /\ priceStore # {}
    /\ TablesOf(servicePrices) = TablesOf(Latest(priceStore))
    /\ TablesOf(Latest(priceStore)) = history.issued

\* C20: when the store call of an edit fails (an error answer, or a throw)
\* and nothing else has touched the table in memory since the edit, the
\* table in memory is, once the failure is back, the table from before the
\* edit.
C20_FailedEditNotVisible ==
  [][ \A c \in priceCalls :
        ( /\ c.kind = "save" /\ c.phase = "answered" /\ c.result # "ok"
          /\ lastOp' = Call("handleSave", << c.n, c.result >>)
          /\ servicePrices = c.prices )
          => TablesOf(servicePrices') = TablesOf(c.prev) ]_vars

\* C19: a cell without entry reads as the empty text, which is not the text
\* of a zero price, and a cell that stores "0" reads as "0".
C19_MissingCellIsNotZero ==
  /\ \A id \in EQUIPMENT_TYPES, btu \in NineCapacities :
       LET entries == servicePrices.installation_prices
           present == id \in DOMAIN entries /\ btu \in DOMAIN entries[id]
       IN  /\ ~present => installationPriceCell(id, btu) = <<>>
           /\ (present /\ entries[id][btu] = <<"0">>)
                => installationPriceCell(id, btu) = <<"0">>
  /\ \A id \in EQUIPMENT_TYPES :
       LET entries == servicePrices.cleaning_prices
       IN  /\ id \notin DOMAIN entries => cleaningPriceCell(id) = <<>>
           /\ (id \in DOMAIN entries /\ entries[id] = <<"0">>)
                => cleaningPriceCell(id) = <<"0">>

\* C19 witness: split at 7000 stores "0", split at 60000 and the cleaning
\* price of janela were never set.
C19_Witness ==
  /\ "split" \in DOMAIN servicePrices.installation_prices
  /\ DOMAIN servicePrices.installation_prices["split"] = {"7000"}
  /\ servicePrices.installation_prices["split"]["7000"] = <<"0">>
  /\ installationPriceCell("split", "7000") = <<"0">>
  /\ installationPriceCell("split", "60000") = <<>>
  /\ "janela" \notin DOMAIN servicePrices.cleaning_prices
  /\ cleaningPriceCell("janela") = <<>>

\* C18: a call of handleDeleteMaterial on a material that an order line
\* refers to changes neither the store nor the list and ends with the
\* in-use toast when the store answers its check; a call on a material no
\* order line refers to, the store answering both requests, removes that
\* material's row from the store and its entry from the list and changes no
\* other row or entry.
C18_DeleteOnlyUnreferenced ==
  [][ \A c \in materialCalls :
        c.op = "handleDeleteMaterial" =>
          /\ c.id \in OrderLineMaterialIds =>
               /\ materialStore' = materialStore
               /\ adminMaterials' = adminMaterials
               /\ adminMaterials = c.materials
               /\ \A d \in materialCalls' :
                    d.op = "handleDeleteMaterial" /\ d.id = c.id => d.at = "check"
               /\ lastOp' = Call("handleDeleteMaterial", << c.id, "in use" >>)
                    <=> (c \notin materialCalls' /\ toast' = ToastMaterialInUse)
          /\ (c.id \notin OrderLineMaterialIds
                /\ lastOp' = Call("handleDeleteMaterial", << c.id, "removed" >>)) =>
               /\ materialStore' = {r \in materialStore : r.id # c.id}
               /\ \E i \in 1..Len(adminMaterials) :
                    /\ adminMaterials[i].id = c.id
                    /\ adminMaterials' =
                         [j \in 1..(Len(adminMaterials) - 1) |->
                            IF j < i THEN adminMaterials[j]
                            ELSE adminMaterials[j + 1]]
               /\ \A j \in 1..Len(adminMaterials') : adminMaterials'[j].id # c.id ]_vars

\* C18 witness: m3 was removed from a list and a store from which m2 was
\* gone already: m1, which an order line refers to, m4 and m5 are left, in
\* the store and in the list.
C18_Witness ==
  /\ lastOp = Call("handleDeleteMaterial", << "m3", "removed" >>)
  /\ toast = ToastMaterialRemoved
  /\ materialStore = {r \in MaterialRows : r.id \in {"m1", "m4", "m5"}}
  /\ adminMaterials = << [id |-> "m1", name |-> "Cabo"],
                         [id |-> "m4", name |-> "Tubo"],
                         [id |-> "m5", name |-> "Valvula"] >>

\* C21: when the store answers a save of the price table with an error,
\* handleSave shows the failure toast and not the success toast.
C21_StoreErrorReportedAsFailure ==
  (lastOp.op = "handleSave" /\ lastOp.arg[2] = "error")
    => toast = ToastPricesFailed

\* C22: the discount is never negative and has at most two decimals.
C22_DiscountNonNegativeTwoDecimals ==
  discount >= 0 /\ discount % 10 = 0

\* C24: a submission of which a store write failed has left no row in any
\* table.
C24_FailedSubmissionLeavesNoRow ==
  (lastOp.op = "onSubmit" /\ toast = ToastFailure) => inserted = NoRows

\* The installation cell (category, capacity) of a table: no entry, or the
\* text stored.
InstallationEntry(prices, category, capacity) ==
  IF category \in DOMAIN prices.installation_prices
  THEN IF capacity \in DOMAIN prices.installation_prices[category]
       THEN << prices.installation_prices[category][capacity] >>
       ELSE <<>>
  ELSE <<>>

\* The cleaning cell of a category: no entry, or the text stored.
CleaningEntry(prices, category) ==
  IF category \in DOMAIN prices.cleaning_prices
  THEN << prices.cleaning_prices[category] >>
  ELSE <<>>

\* C23: updateInstallationPrice changes no installation cell but the one it
\* names, updateCleaningPrice no cleaning cell but the one it names,
\* updateAllBTUPrices no installation cell of another category; each leaves
\* the other price map and the record id as they were.
C23_SettersChangeOnlyTheirCells ==
  [][ LET a == lastOp'.arg
      IN  /\ lastOp'.op = "updateInstallationPrice" =>
               /\ servicePrices'.id = servicePrices.id
               /\ servicePrices'.cleaning_prices = servicePrices.cleaning_prices
               /\ \A category \in EQUIPMENT_TYPES, capacity \in NineCapacities :
                    << category, capacity >> # << a[1], a[2] >> =>
                      InstallationEntry(servicePrices', category, capacity)
                        = InstallationEntry(servicePrices, category, capacity)
          /\ lastOp'.op = "updateCleaningPrice" =>
               /\ servicePrices'.id = servicePrices.id
               /\ servicePrices'.installation_prices
                    = servicePrices.installation_prices
               /\ \A category \in EQUIPMENT_TYPES :
                    category # a[1] =>
                      CleaningEntry(servicePrices', category)
                        = CleaningEntry(servicePrices, category)
          /\ lastOp'.op = "updateAllBTUPrices" =>
               /\ servicePrices'.id = servicePrices.id
               /\ servicePrices'.cleaning_prices = servicePrices.cleaning_prices
               /\ \A category \in EQUIPMENT_TYPES, capacity \in NineCapacities :
                    category # a[1] =>
                      InstallationEntry(servicePrices', category, capacity)
                        = InstallationEntry(servicePrices, category, capacity)
    ]_vars

\* C23 witness: updateInstallationPrice("split", "60000", "0") ran on the
\* table read from the store, which has an id, a price for split at 7000
\* and a cleaning price for split: they are still there.
C23_Witness ==
  /\ lastOp = Call("updateInstallationPrice", << "split", "60000", TxtZero >>)
  /\ \E c \in priceCalls : c.n = clock /\ c.prev = Loaded(SeedRow)
  /\ servicePrices.id = SeedRow.id
  /\ servicePrices.installation_prices["split"]["7000"] = <<"9">>
  /\ servicePrices.installation_prices["split"]["60000"] = <<"0">>
  /\ servicePrices.cleaning_prices = SeedRow.cleaning_prices

\* The cells a setter call names: an installation cell is a pair of
\* category and capacity, a cleaning cell a category.
CellsOf(call) ==
  CASE call.op = "updateAllBTUPrices" ->
         {<< call.arg[1], btu >> : btu \in NineCapacities}
    [] call.op = "updateInstallationPrice" -> {<< call.arg[1], call.arg[2] >>}
    [] call.op = "updateCleaningPrice" -> {<< call.arg[1] >>}

\* The text a setter call was given.
TextOf(call) == call.arg[Len(call.arg)]

\* The entry of a cell in a table.
EntryOf(prices, cell) ==
  IF Len(cell) = 2 THEN InstallationEntry(prices, cell[1], cell[2])
  ELSE CleaningEntry(prices, cell[1])

\* C26: once the session has made edits and every save and load has
\* completed, none with an error, the latest row of the store holds, for
\* every cell the session edited, the text of the last edit of that cell.
C26_NoEditLost ==
  (priceCalls = {} /\ clock >= 1 /\ ~history.failed) =>
    /\ priceStore # {}
    /\ \A i \in 1..Len(history.edits) :
         \A cell \in CellsOf(history.edits[i]) :
           (\A j \in (i + 1)..Len(history.edits) :
              cell \notin CellsOf(history.edits[j]))
             => EntryOf(Latest(priceStore), cell)
                  = << Sanitized(TextOf(history.edits[i])) >>

\* The materials of the list, as a set.
ListedMaterials == {adminMaterials[i] : i \in 1..Len(adminMaterials)}

\* C27: whenever no handler call is suspended, the list holds exactly the
\* rows of the store's materials table, each once.
C27_QuiescentListIsStore ==
  materialCalls = {} =>
    /\ ListedMaterials = materialStore
    /\ Len(adminMaterials) = Cardinality(materialStore)

\* C25: the order header a submission writes carries, as its total, the
\* value calculateTotal returns for the quotation submitted, and as its
\* materials and services amounts the values of calculateMaterialsTotal and
\* calculateServicesTotal.
C25_HeaderCarriesTheTotals ==
  [][ (lastOp'.op = "onSubmit" /\ Len(inserted'.service_orders) = 1) =>
        LET header == inserted'.service_orders[1]
        IN  /\ header.total_amount = toDouble(calculateTotal)
            /\ header.materials_amount = calculateMaterialsTotal
            /\ header.services_amount = calculateServicesTotal ]_vars

====
